---- MODULE Spec2Model ----
(***************************************************************************)
(* Reference-data loaders (static/js/cidades.js, static/js/especialidades.js)*)
(* and the postal-code resolver (static/js/viacep.js) of                    *)
(* SistemaTransportePacientes, as state machines.                          *)
(*                                                                         *)
(* Strings are sequences of UTF-16 code units (a name "Ab" is <<65, 98>>), *)
(* so that sorting, de-duplication, masking and validation are computed,   *)
(* not assumed.  Time is in milliseconds, as Date.getTime() gives it.      *)
(***************************************************************************)
EXTENDS Integers, Sequences, FiniteSets, TLC

VARIABLES
    now,        \* new Date().getTime()
    ticks,      \* how many times the clock has advanced (bounds the run)
    storage,    \* localStorage: dataset -> the item under its cacheKey
    lista,      \* this.cidades / this.especialidades of the two singletons
    isLoaded,   \* this.isLoaded of the two singletons
    calls,      \* the invocations of init()/forceReload(), by call id
    netCount,   \* fetch() requests issued so far, per dataset
    cepField,   \* value of the input[name="cep"] field
    cepClass,   \* which of cep-valido and cep-invalido its classList holds
    campos,     \* values of the logradouro, bairro, cidade and uf fields
    lookups,    \* ViaCEP fetches in flight: {[id, cep]}
    lookupSeq,  \* ViaCEP fetches issued so far
    mensagem,   \* the text of #viacep-message, "" when the element is absent
    loading,    \* whether #viacep-loading is in the document
    focus,      \* the form field that has the focus
    medium,     \* how localStorage behaves: "ok", "cheio" (setItem throws),
                \* "desativado" (every access throws)
    ultima,     \* the last direct call of a cache getter or setter, and how
                \* it ended (kept for the properties, not by the code)
    binder,     \* which createXSelect the page runs: that of CidadesSP, of
                \* EspecialidadesMedicas, or of the second CidadesSP declaration
    dom,        \* the container: whether it and its input exist, its select
                \* elements, and the input's value, placeholder and focus
    nBinds,     \* createXSelect calls so far (bounds the run)
    alvo,       \* the field under validation: "destino" or "especialidade"
    texto,      \* its value
    pendentes,  \* deadlines of the pending setTimeout(..., 1000) callbacks
    timeoutId,  \* the timeoutId variable of the input listener (0: unset)
    resets,     \* deadlines of the pending setTimeout(..., 2000) callbacks
    borda,      \* input.style.borderColor: "padrao", "verde" or "laranja"
    aviso,      \* whether the .aviso-destino / .aviso-especialidade div exists
    tempo,      \* the clock of the validation, in milliseconds
    habilitado, \* whether the field accepts typing (its disabled attribute unset)
    vlog        \* the last input event and the last validation (kept for the
                \* properties, not by the code)

loaderVars == <<now, ticks, storage, lista, isLoaded, calls, netCount>>

cepVars == <<cepField, cepClass, campos, lookups, lookupSeq, mensagem, loading, focus>>

cacheVars == <<medium, ultima>>

bindVars == <<binder, dom, nBinds>>

valVars == <<alvo, texto, pendentes, timeoutId, resets, borda, aviso, tempo, habilitado, vlog>>

uiVars == <<bindVars, valVars>>

vars == <<now, ticks, storage, lista, isLoaded, calls, netCount,
          cepField, cepClass, campos, lookups, lookupSeq, mensagem, loading, focus,
          medium, ultima, binder, dom, nBinds,
          alvo, texto, pendentes, timeoutId, resets, borda, aviso, tempo, habilitado, vlog>>

----------------------------------------------------------------------------
(* Bounds of the model *)

MaxCalls == 2
MaxTicks == 1
MaxLookups == 2

----------------------------------------------------------------------------
(* Program constants *)

Datasets == {"cidades", "especialidades"}

\* this.cacheKey
cacheKey(ds) == IF ds = "cidades" THEN "cidades_sp_ibge" ELSE "especialidades_medicas"

\* this.cacheExpiry: 24 * 60 * 60 * 1000 and 7 * 24 * 60 * 60 * 1000
cacheExpiry(ds) == IF ds = "cidades" THEN 86400000 ELSE 604800000

\* AbortSignal.timeout(10000)
FetchTimeout == 10000

\* Only loadCidades passes an abort signal to fetch(); loadEspecialidades
\* calls fetch(url) with no options.
hasAbortSignal(ds) == ds = "cidades"

----------------------------------------------------------------------------
(* Strings.  The code units the lists of the model use:                   *)
(*   65 "A"  66 "B"  67 "C"  68 "D"  97 "a"  98 "b" ... 193 "A-acute"      *)
(*   225 "a-acute"                                                         *)

\* String.prototype.toLowerCase on one code unit (Basic Latin and Latin-1)
toLowerCaseUnit(c) ==
    IF c \in 65..90 \/ (c \in 192..222 /\ c # 215) THEN c + 32 ELSE c

\* The letter a code unit collates as under { sensitivity: 'base' }: case
\* and diacritics are ignored.
baseLetter(c) ==
    LET l == toLowerCaseUnit(c)
    IN CASE l \in 224..229 -> 97
         [] l = 231 -> 99
         [] l \in 232..235 -> 101
         [] l \in 236..239 -> 105
         [] l \in 242..246 -> 111
         [] l \in 249..252 -> 117
         [] OTHER -> l

RECURSIVE SeqLess(_, _)
\* Lexicographic "less than" on sequences of numbers
SeqLess(a, b) ==
    IF b = <<>> THEN FALSE
    ELSE IF a = <<>> THEN TRUE
    ELSE IF Head(a) < Head(b) THEN TRUE
    ELSE IF Head(a) > Head(b) THEN FALSE
    ELSE SeqLess(Tail(a), Tail(b))

toLowerCase(s) == [i \in 1..Len(s) |-> toLowerCaseUnit(s[i])]

\* a.localeCompare(b, 'pt-BR', { sensitivity: 'base' }) < 0
localeLess(a, b) ==
    SeqLess([i \in 1..Len(a) |-> baseLetter(a[i])], [i \in 1..Len(b) |-> baseLetter(b[i])])

\* The default comparison of Array.prototype.sort(): by UTF-16 code units
codeUnitLess(a, b) == SeqLess(a, b)

\* The comparison each loader sorts with: loadCidades passes the
\* localeCompare callback, loadEspecialidades calls sort() bare.
sortLess(ds, a, b) == IF ds = "cidades" THEN localeLess(a, b) ELSE codeUnitLess(a, b)

RECURSIVE InsertSorted(_, _, _)
\* x inserted after every element that is not greater than it (stable)
InsertSorted(ds, x, s) ==
    IF s = <<>> THEN <<x>>
    ELSE IF sortLess(ds, x, Head(s)) THEN <<x>> \o s
    ELSE <<Head(s)>> \o InsertSorted(ds, x, Tail(s))

RECURSIVE SortBy(_, _)
\* Array.prototype.sort: a stable sort under the loader's comparison
SortBy(ds, s) ==
    IF s = <<>> THEN <<>>
    ELSE InsertSorted(ds, s[Len(s)], SortBy(ds, SubSeq(s, 1, Len(s) - 1)))

RECURSIVE SetDedup(_)
\* [...new Set(s)]: first occurrences, in order, compared by exact equality
SetDedup(s) ==
    IF s = <<>> THEN <<>>
    ELSE LET init == SetDedup(SubSeq(s, 1, Len(s) - 1))
             x == s[Len(s)]
         IN IF \E i \in 1..Len(init) : init[i] = x THEN init ELSE Append(init, x)

----------------------------------------------------------------------------
(* localStorage items *)

NoItem == [kind |-> "none", temLista |-> FALSE, lista |-> <<>>, temTs |-> FALSE, ts |-> 0]

\* Text that JSON.parse rejects
TextoInvalido == [kind |-> "texto", temLista |-> FALSE, lista |-> <<>>, temTs |-> FALSE, ts |-> 0]

\* JSON.stringify({ cidades | especialidades: l, timestamp: t, total: l.length })
Entrada(l, t) == [kind |-> "json", temLista |-> TRUE, lista |-> l, temTs |-> TRUE, ts |-> t]

\* The lists the remote endpoints may answer with
\*   [] and ["b", "a", "A", "a"]: out of order, with a repeated name and
\*   with two names that differ in case only
RemoteLists ==
    { <<>>,
      << <<98>>, <<97>>, <<65>>, <<97>> >> }

\* The static lists of the catch blocks, cut to a few entries in source
\* order and each entry to a distinguishing prefix:
\*   'Adamantina', 'Aguas de Lindoia' (A-acute), 'Carapicuiba', 'Caraguatatuba'
\*   'Clinica Geral', 'Cardiologia', 'Dermatologia'
fallback(ds) ==
    IF ds = "cidades"
    THEN << <<65, 100>>, <<193, 103>>, <<67, 97, 114, 97, 112>>, <<67, 97, 114, 97, 103>> >>
    ELSE << <<67, 108>>, <<67, 97>>, <<68, 101>> >>

----------------------------------------------------------------------------
(* CacheStore: getCachedCidades / getCachedEspecialidades and the setters  *)

\* Mutant of isFresh: the comparison written <=
isFresh_Inclusive(ds, item, t) == item.temTs /\ t - item.ts <= cacheExpiry(ds)

\* now - data.timestamp < this.cacheExpiry; a missing timestamp makes the
\* difference NaN and the comparison false.
isFresh(ds, item, t) == item.temTs /\ t - item.ts < cacheExpiry(ds)

\* Mutant of getCached: the else branch forgets localStorage.removeItem
getCached_KeepsExpired(ds, item, t) ==
    CASE item.kind = "none" ->
            [temValor |-> FALSE, valor |-> <<>>, item |-> item]
      [] item.kind = "texto" ->
            [temValor |-> FALSE, valor |-> <<>>, item |-> NoItem]
      [] OTHER ->
            IF isFresh(ds, item, t)
            THEN [temValor |-> item.temLista, valor |-> item.lista, item |-> item]
            ELSE [temValor |-> FALSE, valor |-> <<>>, item |-> item]

\* What the getter returns (temValor FALSE: null or undefined) and the item
\* it leaves under the key.
getCached(ds, item, t) ==
    CASE item.kind = "none" ->
            [temValor |-> FALSE, valor |-> <<>>, item |-> item]
      [] item.kind = "texto" ->
            \* JSON.parse throws: catch { removeItem }
            [temValor |-> FALSE, valor |-> <<>>, item |-> NoItem]
      [] OTHER ->
            IF isFresh(ds, item, t)
            THEN [temValor |-> item.temLista, valor |-> item.lista, item |-> item]
            ELSE [temValor |-> FALSE, valor |-> <<>>, item |-> NoItem]

\* localStorage.setItem(this.cacheKey, JSON.stringify(data))
setCached(ds, l, t) == Entrada(l, t)

\* if (cachedCidades && cachedCidades.length > 0)
usesCache(c) == c.temValor /\ Len(c.valor) > 0

----------------------------------------------------------------------------
(* DatasetLoader: loadCidades / loadEspecialidades                         *)

\* What fetch() and response.json() may end with.  "forma" is a body that
\* parses but is not the expected collection.
Responses ==
    {[tipo |-> "ok", corpo |-> l] : l \in RemoteLists}
    \cup {[tipo |-> t, corpo |-> <<>>] : t \in {"rede", "http", "json", "forma"}}

\* Whether the try block runs to its return
succeeds(ds, r) ==
    /\ r.tipo = "ok"
    \* if (!Array.isArray(municipios) || municipios.length === 0) throw
    /\ ds = "cidades" => Len(r.corpo) > 0

\* [...new Set(municipios.map(m => m.nome))].sort(localeCompare) for the
\* cities; data.especialidades.sort() for the specialties
normalize(ds, corpo) ==
    IF ds = "cidades" THEN SortBy(ds, SetDedup(corpo)) ELSE SortBy(ds, corpo)

\* How the item under a key stands at time t (recorded in a call when it
\* starts, for the properties below; the code keeps no such record)
itemStatus(ds, item, t) ==
    CASE item.kind = "none" -> "ausente"
      [] item.kind = "texto" -> "corrompido"
      [] ~item.temTs \/ ~item.temLista -> "malformado"
      [] t - item.ts >= cacheExpiry(ds) -> "expirado"
      [] OTHER -> "fresco"

\* A call: pc is where it stands; ret what it returned and via the return
\* statement it left by ("cache", "remote": the end of the try block,
\* "fallback": the catch block); visto how the cache entry stood when
\* loadX() was entered and feitas the calls that had returned by then (the
\* last two are kept for the properties below, not by the code).
IdleCall == [pc |-> "idle", ds |-> "cidades", kind |-> "load", startedAt |-> 0,
             ret |-> <<>>, via |-> "none", visto |-> "none", feitas |-> {}]

\* A call that has returned l; via records the return statement it left by
DoneCall(ds, kind, l, via, visto, feitas) ==
    [pc |-> "done", ds |-> ds, kind |-> kind, startedAt |-> 0, ret |-> l, via |-> via,
     visto |-> visto, feitas |-> feitas]

Calls == 1..MaxCalls

\* The calls that have returned
Returned == {c \in Calls : calls[c].pc = "done"}

\* The synchronous part of a load, up to the return or the first await
loadStart(c, ds, kind, st) ==
    LET got == getCached(ds, st[ds], now)
    IN /\ storage' = [st EXCEPT ![ds] = got.item]
       /\ IF usesCache(got)
          THEN /\ lista' = [lista EXCEPT ![ds] = got.valor]
               /\ isLoaded' = [isLoaded EXCEPT ![ds] = TRUE]
               /\ calls' = [calls EXCEPT ![c] = DoneCall(ds, kind, got.valor, "cache", itemStatus(ds, st[ds], now), Returned)]
               /\ UNCHANGED netCount
          ELSE /\ calls' = [calls EXCEPT ![c] =
                      [pc |-> "fetching", ds |-> ds, kind |-> kind, startedAt |-> now,
                       ret |-> <<>>, via |-> "none",
                       visto |-> itemStatus(ds, st[ds], now), feitas |-> Returned]]
               /\ netCount' = [netCount EXCEPT ![ds] = @ + 1]
               /\ isLoaded' = [isLoaded EXCEPT ![ds] = IF kind = "forceReload" THEN FALSE ELSE @]
               /\ UNCHANGED lista

\* Call ids are handed out in order
CanStart(c) == calls[c].pc = "idle" /\ (IF c = 1 THEN TRUE ELSE calls[c - 1].pc # "idle")

\* init(): await this.loadCidades() / await this.loadEspecialidades()
Load(c, ds) ==
    /\ CanStart(c)
    /\ loadStart(c, ds, "load", storage)
    /\ UNCHANGED <<now, ticks, cepVars, cacheVars, uiVars>>

\* Mutant of clearCache: localStorage.clear() in place of removeItem(cacheKey)
clearCache_Tudo(st) == [ds \in Datasets |-> NoItem]

\* CidadesSP.clearCache()
clearCache(st) == [st EXCEPT !["cidades"] = NoItem]

\* CidadesSP.forceReload(): clearCache(); isLoaded = false; await loadCidades()
ForceReload(c) ==
    /\ CanStart(c)
    /\ loadStart(c, "cidades", "forceReload", clearCache(storage))
    /\ UNCHANGED <<now, ticks, cepVars, cacheVars, uiVars>>

\* window.CidadesDebug.clearCache
ClearCache ==
    /\ storage["cidades"] # NoItem
    /\ storage' = clearCache(storage)
    /\ UNCHANGED <<now, ticks, lista, isLoaded, calls, netCount, cepVars, cacheVars, uiVars>>

\* Mutant of loadFallback: the catch block saves the static list in the cache
loadFallback_Cached(c) ==
    LET ds == calls[c].ds
    IN /\ lista' = [lista EXCEPT ![ds] = fallback(ds)]
       /\ isLoaded' = [isLoaded EXCEPT ![ds] = TRUE]
       /\ calls' = [calls EXCEPT ![c] =
              DoneCall(ds, calls[c].kind, fallback(ds), "fallback", calls[c].visto,
                       calls[c].feitas)]
       /\ storage' = [storage EXCEPT ![ds] = setCached(ds, fallback(ds), now)]

\* The catch block: the static list, nothing written to the cache
loadFallback(c) ==
    LET ds == calls[c].ds
    IN /\ lista' = [lista EXCEPT ![ds] = fallback(ds)]
       /\ isLoaded' = [isLoaded EXCEPT ![ds] = TRUE]
       /\ calls' = [calls EXCEPT ![c] =
              DoneCall(ds, calls[c].kind, fallback(ds), "fallback", calls[c].visto,
                       calls[c].feitas)]
       /\ UNCHANGED storage

\* The rest of the try block after the awaits
loadSuccess(c, corpo) ==
    LET ds == calls[c].ds
        l == normalize(ds, corpo)
    IN /\ lista' = [lista EXCEPT ![ds] = l]
       /\ storage' = [storage EXCEPT ![ds] = setCached(ds, l, now)]
       /\ isLoaded' = [isLoaded EXCEPT ![ds] = TRUE]
       /\ calls' = [calls EXCEPT ![c] =
              DoneCall(ds, calls[c].kind, l, "remote", calls[c].visto, calls[c].feitas)]

\* The fetch of call c settles with r
Respond(c, r) ==
    /\ calls[c].pc = "fetching"
    /\ IF succeeds(calls[c].ds, r) THEN loadSuccess(c, r.corpo) ELSE loadFallback(c)
    /\ UNCHANGED <<now, ticks, netCount, cepVars, cacheVars, uiVars>>

\* AbortSignal.timeout(10000) fires: fetch rejects, the catch block runs
Timeout(c) ==
    /\ calls[c].pc = "fetching"
    /\ hasAbortSignal(calls[c].ds)
    /\ now - calls[c].startedAt >= FetchTimeout
    /\ loadFallback(c)
    /\ UNCHANGED <<now, ticks, netCount, cepVars, cacheVars, uiVars>>

\* The steps the clock advances by
TickSteps == {FetchTimeout, cacheExpiry("cidades"), cacheExpiry("especialidades")}

\* Time passes; an armed abort timer fires no later than its deadline
Tick(d) ==
    /\ ticks < MaxTicks
    /\ \A c \in Calls :
          (calls[c].pc = "fetching" /\ hasAbortSignal(calls[c].ds))
              => now + d <= calls[c].startedAt + FetchTimeout
    /\ now' = now + d
    /\ ticks' = ticks + 1
    /\ UNCHANGED <<storage, lista, isLoaded, calls, netCount, cepVars, cacheVars, uiVars>>

----------------------------------------------------------------------------
(* PostalCodeResolver: class ViaCEP (the second declaration in viacep.js,  *)
(* the one with validarFormatoCEP)                                         *)

\* Code units of "0".."9" and "-"
Zero == 48
Hifen == 45

\* The string of the decimal digits ds
Cod(ds) == [i \in 1..Len(ds) |-> Zero + ds[i]]

isDigit(ch) == ch \in Zero..(Zero + 9)

\* Mutant of soDigitos: every non-digit replaced by "0" instead of removed
soDigitos_Zeros(v) == [i \in 1..Len(v) |-> IF isDigit(v[i]) THEN v[i] ELSE Zero]

\* value.replace(/\D/g, '')
soDigitos(v) == SelectSeq(v, isDigit)

\* Mutant of formatCEP: the substring(0, 9) at the end left out
formatCEP_NoLimit(v) ==
    LET d == soDigitos(v)
    IN IF Len(d) >= 6
       THEN SubSeq(d, 1, 5) \o <<Hifen>> \o SubSeq(d, 6, Len(d))
       ELSE d

\* Mutant of formatCEP: the replacement is '$1-', the second group is lost
formatCEP_SemGrupo2(v) ==
    LET d == soDigitos(v)
        m == IF Len(d) >= 6
             THEN SubSeq(d, 1, 5) \o <<Hifen>> \o SubSeq(d, 9, Len(d))
             ELSE d
    IN IF Len(m) > 9 THEN SubSeq(m, 1, 9) ELSE m

\* formatCEP: what the input handler leaves in the field holding v
formatCEP(v) ==
    LET d == soDigitos(v)
        \* value.replace(/(\d{5})(\d{1,3})/, '$1-$2'): the first match starts
        \* at the first digit, and what follows the match stays
        m == IF Len(d) >= 6
             THEN SubSeq(d, 1, 5) \o <<Hifen>> \o SubSeq(d, 6, Len(d))
             ELSE d
    IN IF Len(m) > 9 THEN SubSeq(m, 1, 9) ELSE m

\* The prefixes validarFormatoCEP lets a leading 0 through with
PrefixosComZero ==
    { Cod(<<0, 1, 0, 0, 0>>), Cod(<<0, 2, 0, 0, 0>>), Cod(<<0, 3, 0, 0, 0>>),
      Cod(<<0, 4, 0, 0, 0>>), Cod(<<0, 5, 0, 0, 0>>), Cod(<<0, 8, 0, 0, 0>>),
      Cod(<<0, 9, 0, 0, 0>>) }

\* /^(\d)\1{7}$/
todosIguais(cep) == Len(cep) = 8 /\ isDigit(cep[1]) /\ \A i \in 1..8 : cep[i] = cep[1]

validarFormatoCEP(cep) ==
    \* if (!/^\d{8}$/.test(cep)) return false
    IF ~(Len(cep) = 8 /\ \A i \in 1..8 : isDigit(cep[i])) THEN FALSE
    \* if (/^(\d)\1{7}$/.test(cep)) return false
    ELSE IF todosIguais(cep) THEN FALSE
    \* if (cep.startsWith('0') && !prefixes.some(p => cep.startsWith(p))) return false
    ELSE IF cep[1] = Zero /\ SubSeq(cep, 1, 5) \notin PrefixosComZero THEN FALSE
    ELSE TRUE

\* The texts showError / showSuccess are called with (accents and the
\* trailing emoji left out)
MsgFormato == "CEP com formato invalido!"
MsgNaoEncontrado == "CEP nao encontrado!"
MsgIncompleto == "CEP encontrado, mas dados incompletos!"
MsgConexao == "Erro ao buscar CEP. Verifique sua conexao."
MsgSucesso == "Endereco encontrado e validado!"

NomesCampos == {"logradouro", "bairro", "cidade", "uf"}

CamposVazios == [f \in NomesCampos |-> <<>>]

\* The form as the handlers see it
Form ==
    [field |-> cepField, classe |-> cepClass, campos |-> campos, lookups |-> lookups,
     seq |-> lookupSeq, mensagem |-> mensagem, loading |-> loading, focus |-> focus]

SetForm(s) ==
    /\ cepField' = s.field
    /\ cepClass' = s.classe
    /\ campos' = s.campos
    /\ lookups' = s.lookups
    /\ lookupSeq' = s.seq
    /\ mensagem' = s.mensagem
    /\ loading' = s.loading
    /\ focus' = s.focus

\* limparCampos()
limparCampos(s) == [s EXCEPT !.campos = CamposVazios]

\* showMessage(message, type): the previous message element is replaced
showMessage(s, m) == [s EXCEPT !.mensagem = m]

\* Mutant of validarCEPTemporal: classList.remove(...) left out
validarCEPTemporal_NoRemove(s) ==
    LET cep == soDigitos(s.field)
    IN IF Len(cep) = 8
       THEN IF validarFormatoCEP(cep)
            THEN [s EXCEPT !.classe = @ \cup {"cep-valido"}]
            ELSE showMessage([s EXCEPT !.classe = @ \cup {"cep-invalido"}], MsgFormato)
       ELSE s

\* validarCEPTemporal(field), the keyup handler
validarCEPTemporal(s) ==
    LET cep == soDigitos(s.field)
        \* field.classList.remove('cep-valido', 'cep-invalido')
        limpo == [s EXCEPT !.classe = @ \ {"cep-valido", "cep-invalido"}]
    IN IF Len(cep) = 8
       THEN IF validarFormatoCEP(cep)
            THEN [limpo EXCEPT !.classe = @ \cup {"cep-valido"}]
            ELSE showMessage([limpo EXCEPT !.classe = @ \cup {"cep-invalido"}], MsgFormato)
       ELSE limpo

\* buscarEndereco(cepField) up to its return or its first await
\* Mutant of buscarEndereco: a code of fewer than 8 digits returns at once
buscarEndereco_CurtoMantem(s) ==
    LET cep == soDigitos(s.field)
    IN IF Len(cep) # 8 THEN s
       ELSE IF ~validarFormatoCEP(cep) THEN limparCampos(showMessage(s, MsgFormato))
       ELSE [s EXCEPT !.loading = TRUE,
                      !.seq = @ + 1,
                      !.lookups = @ \cup {[id |-> s.seq + 1, cep |-> cep]}]

buscarEndereco(s) ==
    LET cep == soDigitos(s.field)
    IN IF Len(cep) # 8 THEN limparCampos(s)
       ELSE IF ~validarFormatoCEP(cep) THEN limparCampos(showMessage(s, MsgFormato))
       ELSE [s EXCEPT !.loading = TRUE,
                      !.seq = @ + 1,
                      !.lookups = @ \cup {[id |-> s.seq + 1, cep |-> cep]}]

\* element.focus() on the numero field: the cep field, if it had the focus,
\* loses it and its blur handler runs
focusNumero(s) ==
    IF s.focus = "cep"
    THEN buscarEndereco([s EXCEPT !.focus = "numero"])
    ELSE [s EXCEPT !.focus = "numero"]

\* preencherCampos(data): a field is written only when its value is truthy
preencherCampos(s, data) ==
    LET escrito == [f \in NomesCampos |->
                       IF data[f] # <<>> THEN data[f] ELSE s.campos[f]]
    IN focusNumero([s EXCEPT !.campos = escrito])

\* What the ViaCEP endpoint may answer a lookup of cep with.  The address
\* of a code is written as the code itself, so that a field shows which
\* lookup filled it.  "falha": fetch or response.json() rejects.
Endereco(cep, faltam) ==
    [tipo |-> "dados",
     dados |-> [f \in NomesCampos |-> IF f \in faltam THEN <<>> ELSE cep]]

LookupResponses(cep) ==
    { Endereco(cep, {}), Endereco(cep, {"bairro"}), Endereco(cep, {"logradouro"}),
      Endereco(cep, {"cidade", "uf"}),
      [tipo |-> "erro", dados |-> CamposVazios],
      [tipo |-> "falha", dados |-> CamposVazios] }

\* Mutant of aposResposta: the data.erro branch without limparCampos()
aposResposta_ErroKeeps(s, r) ==
    LET t == CASE r.tipo = "falha" -> showMessage(s, MsgConexao)
               [] r.tipo = "erro" -> showMessage(s, MsgNaoEncontrado)
               [] r.dados["logradouro"] = <<>> \/ r.dados["cidade"] = <<>> ->
                      showMessage(s, MsgIncompleto)
               [] OTHER -> showMessage(preencherCampos(s, r.dados), MsgSucesso)
    IN [t EXCEPT !.loading = FALSE]

\* buscarEndereco after its awaits, with the finally block
aposResposta(s, r) ==
    LET t == CASE r.tipo = "falha" -> showMessage(s, MsgConexao)
               [] r.tipo = "erro" -> limparCampos(showMessage(s, MsgNaoEncontrado))
               \* if (!data.logradouro || !data.localidade)
               [] r.dados["logradouro"] = <<>> \/ r.dados["cidade"] = <<>> ->
                      showMessage(s, MsgIncompleto)
               [] OTHER -> showMessage(preencherCampos(s, r.dados), MsgSucesso)
    IN [t EXCEPT !.loading = FALSE]

\* What the cep field may hold when an input event fires
RawInputs ==
    { <<>>,
      Cod(<<1, 3, 1, 5>>),
      Cod(<<1, 3, 1, 5, 0, 0, 0>>),
      Cod(<<1, 3, 1, 5, 0, 0, 0, 0>>),
      Cod(<<1, 3, 1, 5, 0>>) \o <<Hifen>> \o Cod(<<0, 0, 0>>),
      Cod(<<1, 3, 1, 5, 0, 0, 0, 0, 1>>),
      Cod(<<1, 3, 1, 5>>) \o <<120>> \o Cod(<<0, 0, 0>>),
      Cod(<<0, 0, 0, 0, 0, 0, 0, 0>>),
      Cod(<<1, 1, 1, 1, 1, 1, 1, 1>>),
      Cod(<<0, 1, 3, 1, 0, 0, 0, 0>>),
      Cod(<<0, 1, 0, 0, 0, 0, 0, 1>>) }

\* The user clicks into the cep field
FocusCep ==
    /\ focus # "cep"
    /\ lookupSeq < MaxLookups
    /\ SetForm([Form EXCEPT !.focus = "cep"])
    /\ UNCHANGED <<loaderVars, cacheVars, uiVars>>

\* A key is pressed in the cep field: the input handler, then the keyup one
Keystroke(v) ==
    /\ focus = "cep"
    /\ SetForm(validarCEPTemporal([Form EXCEPT !.field = formatCEP(v)]))
    /\ UNCHANGED <<loaderVars, cacheVars, uiVars>>

\* The field changes without a key (paste, drop): the input handler alone
Paste(v) ==
    /\ focus = "cep"
    /\ SetForm([Form EXCEPT !.field = formatCEP(v)])
    /\ UNCHANGED <<loaderVars, cacheVars, uiVars>>

\* The cep field loses the focus: the blur handler
Blur ==
    /\ focus = "cep"
    /\ SetForm(buscarEndereco([Form EXCEPT !.focus = "outro"]))
    /\ UNCHANGED <<loaderVars, cacheVars, uiVars>>

\* The fetch of lookup l settles with r
LookupResponde(l, r) ==
    /\ l \in lookups
    /\ SetForm(aposResposta([Form EXCEPT !.lookups = @ \ {l}], r))
    /\ UNCHANGED <<loaderVars, cacheVars, uiVars>>

\* setTimeout(() => messageEl.remove(), 3000)
MensagemExpira ==
    /\ mensagem # ""
    /\ SetForm([Form EXCEPT !.mensagem = ""])
    /\ UNCHANGED <<loaderVars, cacheVars, uiVars>>

InitCepVars ==
    /\ cepField = <<>>
    /\ cepClass = {}
    /\ campos = CamposVazios
    /\ lookups = {}
    /\ lookupSeq = 0
    /\ mensagem = ""
    /\ loading = FALSE
    /\ focus = "outro"

InitLoaderVars ==
    /\ now = 0
    /\ ticks = 0
    /\ storage = [ds \in Datasets |-> NoItem]
    /\ lista = [ds \in Datasets |-> <<>>]
    /\ isLoaded = [ds \in Datasets |-> FALSE]
    /\ calls = [c \in Calls |-> IdleCall]
    /\ netCount = [ds \in Datasets |-> 0]

\* localStorage works, and no getter or setter has been called directly
NoOp == [op |-> "none", ds |-> "cidades", em |-> 0, antes |-> NoItem, vazio |-> TRUE,
         temValor |-> FALSE, valor |-> <<>>, lancou |-> FALSE]

InitCacheVars ==
    /\ medium = "ok"
    /\ ultima = NoOp

\* The placeholder the page's markup gives the input before any binding
PlaceholderDoMarkup == "(markup)"

\* A page with a container and its input, nothing bound to it yet
DomInicial(c, i) ==
    [container |-> c, input |-> i, selects |-> <<>>, value |-> <<>>,
     placeholder |-> PlaceholderDoMarkup, focused |-> FALSE, disparos |-> 0]

InitBindVars ==
    /\ binder = "cidades"
    /\ dom = DomInicial(TRUE, TRUE)
    /\ nBinds = 0

\* No input event and no validation yet.  ultimoInput: the time of the last
\* input event; desdeInput: the validations the debounce callback has run
\* since then; eventos: the user's events so far; origem, valor, exibiu,
\* aceito: who ran the last validation, on which value, whether it reached
\* mostrarSucesso / mostrarAviso, and what it returned
SemValidacao ==
    [ultimoInput |-> 0, houveInput |-> FALSE, desdeInput |-> 0, eventos |-> 0,
     origem |-> "nenhuma", valor |-> <<>>, exibiu |-> FALSE, aceito |-> TRUE]

InitValVars ==
    /\ alvo = "destino"
    /\ texto = <<>>
    /\ pendentes = {}
    /\ timeoutId = 0
    /\ resets = <<>>
    /\ borda = "padrao"
    /\ aviso = FALSE
    /\ tempo = 0
    /\ habilitado = TRUE
    /\ vlog = SemValidacao

InitCep == InitCepVars /\ InitLoaderVars /\ InitCacheVars /\ InitBindVars /\ InitValVars

NextCep ==
    \/ FocusCep
    \/ \E v \in RawInputs : Keystroke(v)
    \/ \E v \in RawInputs : Paste(v)
    \/ Blur
    \/ \E l \in lookups : \E r \in LookupResponses(l.cep) : LookupResponde(l, r)
    \/ MensagemExpira

SpecCep == InitCep /\ [][NextCep]_vars

\* What localStorage may hold under a key when the page opens: nothing,
\* text that is not JSON, or the entry an earlier page view wrote at time 0
\* for the answer ["b", "a"]
InitialItems(ds) ==
    { NoItem, TextoInvalido,
      Entrada(normalize(ds, << <<98>>, <<97>> >>), 0) }

InitLoad ==
    /\ now = 0
    /\ ticks = 0
    /\ storage \in [Datasets -> UNION {InitialItems(ds) : ds \in Datasets}]
    /\ \A ds \in Datasets : storage[ds] \in InitialItems(ds)
    \* one key at most is taken at the start
    /\ \E ds \in Datasets : storage[ds] = NoItem
    /\ lista = [ds \in Datasets |-> <<>>]
    /\ isLoaded = [ds \in Datasets |-> FALSE]
    /\ calls = [c \in Calls |-> IdleCall]
    /\ netCount = [ds \in Datasets |-> 0]
    /\ InitCepVars
    /\ InitCacheVars
    /\ InitBindVars
    /\ InitValVars

NextLoad ==
    \/ \E c \in Calls, ds \in Datasets : Load(c, ds)
    \/ \E c \in Calls : ForceReload(c)
    \/ ClearCache
    \/ \E c \in Calls, r \in Responses : Respond(c, r)
    \/ \E c \in Calls : Timeout(c)
    \/ \E d \in TickSteps : Tick(d)

SpecLoad == InitLoad /\ [][NextLoad]_vars

----------------------------------------------------------------------------
(* The cache getters and setters called on their own, over every kind of   *)
(* stored value and every behaviour of localStorage                        *)

\* JSON.stringify({ cidades: l, total: n }): an object with no timestamp
EntradaSemTimestamp(l) ==
    [kind |-> "json", temLista |-> TRUE, lista |-> l, temTs |-> FALSE, ts |-> 0]

\* JSON.stringify({ timestamp: t }): an object with no cidades /
\* especialidades property
EntradaSemLista(t) ==
    [kind |-> "json", temLista |-> FALSE, lista |-> <<>>, temTs |-> TRUE, ts |-> t]

\* What may lie under a key when a getter is called
StoredItems(ds) ==
    InitialItems(ds)
    \cup { EntradaSemTimestamp(normalize(ds, << <<98>>, <<97>> >>)), EntradaSemLista(0) }

Media == {"ok", "cheio", "desativado"}

\* getCachedCidades() / getCachedEspecialidades() on medium m.  When every
\* access throws, getItem throws inside the try block and removeItem throws
\* again inside the catch block, which nothing encloses.
cacheRead(m, ds, item, t) ==
    IF m = "desativado"
    THEN [lancou |-> TRUE, temValor |-> FALSE, valor |-> <<>>, item |-> item]
    ELSE LET r == getCached(ds, item, t)
         IN [lancou |-> FALSE, temValor |-> r.temValor, valor |-> r.valor, item |-> r.item]

\* setCachedCidades(l) / setCachedEspecialidades(l) on medium m: setItem is
\* inside try, its exception is caught and logged
cacheWrite(m, ds, item, l, t) ==
    IF m = "ok" THEN setCached(ds, l, t) ELSE item

\* A getter is called
CacheRead(ds) ==
    LET r == cacheRead(medium, ds, storage[ds], now)
    IN /\ storage' = [storage EXCEPT ![ds] = r.item]
       /\ ultima' = [op |-> "get", ds |-> ds, em |-> now, antes |-> storage[ds],
                     vazio |-> (r.item = NoItem), temValor |-> r.temValor,
                     valor |-> r.valor, lancou |-> r.lancou]
       /\ UNCHANGED <<now, ticks, lista, isLoaded, calls, netCount, cepVars, medium, uiVars>>

\* A setter is called with the list l
CacheWrite(ds, l) ==
    LET item == cacheWrite(medium, ds, storage[ds], l, now)
    IN /\ storage' = [storage EXCEPT ![ds] = item]
       /\ ultima' = [op |-> "set", ds |-> ds, em |-> now, antes |-> storage[ds],
                     vazio |-> (item = NoItem), temValor |-> FALSE,
                     valor |-> <<>>, lancou |-> FALSE]
       /\ UNCHANGED <<now, ticks, lista, isLoaded, calls, netCount, cepVars, medium, uiVars>>

\* The browser's storage fills up, is disabled, or works again
MediumChanges(m) ==
    /\ m # medium
    /\ medium' = m
    /\ UNCHANGED <<loaderVars, cepVars, ultima, uiVars>>

\* The page opens on whatever an earlier visit or another script left
\* under the two keys
InitCache ==
    /\ now = 0
    /\ ticks = 0
    /\ storage \in [Datasets -> UNION {StoredItems(ds) : ds \in Datasets}]
    /\ \A ds \in Datasets : storage[ds] \in StoredItems(ds)
    /\ lista = [ds \in Datasets |-> <<>>]
    /\ isLoaded = [ds \in Datasets |-> FALSE]
    /\ calls = [c \in Calls |-> IdleCall]
    /\ netCount = [ds \in Datasets |-> 0]
    /\ InitCepVars
    /\ InitCacheVars
    /\ InitBindVars
    /\ InitValVars

NextCache ==
    \/ \E ds \in Datasets : CacheRead(ds)
    \/ \E ds \in Datasets : \E r \in RemoteLists : CacheWrite(ds, normalize(ds, r))
    \/ \E m \in Media : MediumChanges(m)
    \/ \E d \in TickSteps : Tick(d)

SpecCache == InitCache /\ [][NextCache]_vars

----------------------------------------------------------------------------
(* The field binders: createCidadeSelect (both declarations of CidadesSP)  *)
(* and createEspecialidadeSelect, bound to one container                   *)

MaxBinds == 3

\* "cidades2" is the createCidadeSelect of the second class CidadesSP
Binders == {"cidades", "especialidades", "cidades2"}

\* this.cidades / this.especialidades
datasetOf(b) == IF b = "especialidades" THEN "especialidades" ELSE "cidades"

\* 'outra'
Outra == <<111, 117, 116, 114, 97>>

\* ', SP'
SufixoSP == <<44, 32, 83, 80>>

\* The placeholder createXSelect gives the input
PlaceholderInicial(b) ==
    CASE b = "cidades" -> "Endereco sera preenchido automaticamente pela selecao acima"
      [] b = "especialidades" -> "Digite a especialidade ou selecione acima"
      [] b = "cidades2" -> "Digite o endereco completo ou selecione uma cidade acima"

\* The placeholder the 'outra' branch gives the input
PlaceholderLivre(b) ==
    CASE b = "cidades" -> "Digite o endereco completo: Rua, n, bairro, cidade"
      [] b = "especialidades" -> "Digite a especialidade medica"
      [] b = "cidades2" -> "Digite o endereco completo da cidade"

\* The placeholder the first createCidadeSelect sets after a city is chosen
PlaceholderComplete == "Complete com rua, numero e bairro se necessario"

\* Mutant of novoSelect: the trailing 'outra' option is not appended
novoSelect_SemOutra(l) ==
    [options |-> << <<>> >> \o l, valor |-> <<>>, listeners |-> 1]

\* The select element built from the list l: the default option with value
\* '', one option per entry, the option 'outra'; one change listener
novoSelect(l) ==
    [options |-> << <<>> >> \o l \o <<Outra>>, valor |-> <<>>, listeners |-> 1]

\* createCidadeSelect / createEspecialidadeSelect on the page d with the
\* list l.  The first CidadesSP and EspecialidadesMedicas remove the first
\* existing select, then look for the input; the second CidadesSP removes
\* nothing.  insertBefore(select, input) puts the new select after the others.
createSelect(b, d, l) ==
    IF ~d.container THEN d
    ELSE IF b = "cidades2"
         THEN IF d.input
              THEN [d EXCEPT !.selects = Append(@, novoSelect(l)),
                             !.placeholder = PlaceholderInicial(b)]
              ELSE d
         ELSE LET d1 == [d EXCEPT !.selects = IF @ = <<>> THEN @ ELSE Tail(@)]
              IN IF d1.input
                 THEN [d1 EXCEPT !.selects = Append(@, novoSelect(l)),
                                 !.placeholder = PlaceholderInicial(b)]
                 ELSE d1

\* Mutant of escolheItem: every listener writes the bare entry
escolheItem_SemSufixo(b, d, v) ==
    [d EXCEPT !.value = v, !.focused = TRUE]

\* The listener's branch for a list entry v
escolheItem(b, d, v) ==
    CASE b = "cidades" ->
           [d EXCEPT !.value = v \o SufixoSP, !.placeholder = PlaceholderComplete,
                     !.focused = TRUE]
      [] b = "especialidades" -> [d EXCEPT !.value = v, !.focused = TRUE]
      [] b = "cidades2" -> [d EXCEPT !.value = v \o SufixoSP, !.focused = TRUE]

\* Mutant of escolheOutra: the value is left as it was
escolheOutra_MantemValor(b, d) ==
    [d EXCEPT !.focused = TRUE, !.placeholder = PlaceholderLivre(b)]

\* The listener's branch for 'outra'
escolheOutra(b, d) ==
    [d EXCEPT !.value = <<>>, !.focused = TRUE, !.placeholder = PlaceholderLivre(b)]

\* The listener on the default option: the else branch of the first
\* CidadesSP; the other two listeners have no such branch
escolheVazio(b, d) ==
    IF b = "cidades"
    THEN [d EXCEPT !.value = <<>>, !.placeholder = PlaceholderInicial(b)]
    ELSE d

\* The change listener, for the selected value v
onChange(b, d, v) ==
    IF v # <<>> /\ v # Outra THEN escolheItem(b, d, v)
    ELSE IF v = Outra THEN escolheOutra(b, d)
    ELSE escolheVazio(b, d)

\* n listeners run one after the other
RECURSIVE disparar(_, _, _, _)
disparar(n, b, d, v) ==
    IF n = 0 THEN d ELSE disparar(n - 1, b, onChange(b, d, v), v)

\* createXSelect(targetElementId) is called
Bind ==
    /\ nBinds < MaxBinds
    /\ nBinds' = nBinds + 1
    /\ dom' = createSelect(binder, dom, lista[datasetOf(binder)])
    /\ UNCHANGED <<binder, loaderVars, cepVars, cacheVars, valVars>>

\* The user picks the option v of the i-th select
Change(i, v) ==
    /\ i \in 1..Len(dom.selects)
    /\ \E k \in 1..Len(dom.selects[i].options) : dom.selects[i].options[k] = v
    /\ v # dom.selects[i].valor
    /\ dom' = [disparar(dom.selects[i].listeners, binder,
                        [dom EXCEPT !.selects[i].valor = v], v)
                 EXCEPT !.disparos = dom.selects[i].listeners]
    /\ UNCHANGED <<binder, nBinds, loaderVars, cepVars, cacheVars, valVars>>

\* What the user may type into the input
Digitados == {<<>>, <<120>>}

\* The user types into the input
TypeText(v) ==
    /\ dom.input
    /\ v # dom.value
    /\ dom' = [dom EXCEPT !.value = v, !.focused = TRUE]
    /\ UNCHANGED <<binder, nBinds, loaderVars, cepVars, cacheVars, valVars>>

\* The input leaves the container (another script rebuilds the form)
RemoveInput ==
    /\ dom.input
    /\ dom' = [dom EXCEPT !.input = FALSE, !.focused = FALSE]
    /\ UNCHANGED <<binder, nBinds, loaderVars, cepVars, cacheVars, valVars>>

\* The lists the binder may find in this.cidades / this.especialidades
BindLists(ds) == {<<>>, normalize(ds, << <<98>>, <<97>> >>)}

\* Every option value a select may carry
Escolhas ==
    {<<>>, Outra}
    \cup UNION { {l[k] : k \in 1..Len(l)} : l \in UNION {BindLists(ds) : ds \in Datasets} }

InitBind ==
    /\ now = 0
    /\ ticks = 0
    /\ storage = [ds \in Datasets |-> NoItem]
    /\ binder \in Binders
    /\ \E l \in BindLists(datasetOf(binder)) :
          lista = [ds \in Datasets |-> IF ds = datasetOf(binder) THEN l ELSE <<>>]
    /\ isLoaded = [ds \in Datasets |-> ds = datasetOf(binder)]
    /\ calls = [c \in Calls |-> IdleCall]
    /\ netCount = [ds \in Datasets |-> 0]
    /\ \E c \in BOOLEAN, i \in BOOLEAN : (i => c) /\ dom = DomInicial(c, i)
    /\ nBinds = 0
    /\ InitCepVars
    /\ InitCacheVars
    /\ InitValVars

NextBind ==
    \/ Bind
    \/ \E i \in 1..MaxBinds : \E v \in Escolhas : Change(i, v)
    \/ \E v \in Digitados : TypeText(v)
    \/ RemoveInput

SpecBind == InitBind /\ [][NextBind]_vars

----------------------------------------------------------------------------
(* The validation of the destination field (validarDestinoSimples, wired   *)
(* to its blur and input events) and of the specialty field                *)
(* (validarEspecialidadeSimples, called by the form)                       *)

MaxPassos == 5

MaxEventos == 4

\* The clock advances in steps of half a second
Passo == 500

\* setTimeout(..., 1000) of the input listener
Debounce == 1000

\* this.value.length > 10
MinDebounce == 10

\* setTimeout(..., 2000) of mostrarSucessoDestino / mostrarSucessoEspecialidade
ResetDelay == 2000

\* valor.length < 5 in validarDestinoSimples
MinDestino == 5

\* valor.length < 3 in validarEspecialidadeSimples
MinEspecialidade == 3

\* valor.length > 5 in validarEspecialidadeSimples
LongaEspecialidade == 5

Alvos == {"destino", "especialidade"}

\* palavrasValidas of validarDestinoSimples
PalavrasDestino ==
    {
      <<114, 117, 97>>,   \* rua
      <<97, 118>>,   \* av
      <<97, 118, 101, 110, 105, 100, 97>>,   \* avenida
      <<97, 108, 97, 109, 101, 100, 97>>,   \* alameda
      <<116, 114, 97, 118, 101, 115, 115, 97>>,   \* travessa
      <<112, 114, 97, 231, 97>>,   \* pra.a
      <<112, 114, 97, 99, 97>>,   \* praca
      <<101, 115, 116, 114, 97, 100, 97>>,   \* estrada
      <<114, 111, 100, 111, 118, 105, 97>>,   \* rodovia
      <<98, 114>>,   \* br
      <<115, 112>>,   \* sp
      <<99, 101, 110, 116, 114, 111>>,   \* centro
      <<98, 97, 105, 114, 114, 111>>,   \* bairro
      <<106, 97, 114, 100, 105, 109>>,   \* jardim
      <<118, 105, 108, 97>>,   \* vila
      <<99, 111, 110, 106, 117, 110, 116, 111>>,   \* conjunto
      <<104, 111, 115, 112, 105, 116, 97, 108>>,   \* hospital
      <<99, 108, 105, 110, 105, 99, 97>>,   \* clinica
      <<99, 108, 237, 110, 105, 99, 97>>,   \* cl.nica
      <<112, 111, 115, 116, 111>>,   \* posto
      <<117, 98, 115>>,   \* ubs
      <<115, 97, 110, 116, 97, 32, 99, 97, 115, 97>>,   \* santa casa
      <<104, 111, 115, 112, 105, 116, 97, 108>>,   \* hospital
      <<110, 250, 109, 101, 114, 111>>,   \* n.mero
      <<110, 186>>,   \* n.
      <<110, 176>>,   \* n.
      <<107, 109>>    \* km
    }

\* palavrasValidas of validarEspecialidadeSimples
PalavrasEspecialidade ==
    {
      <<99, 97, 114, 100, 105, 111, 108, 111, 103, 105, 97>>,   \* cardiologia
      <<110, 101, 117, 114, 111, 108, 111, 103, 105, 97>>,   \* neurologia
      <<112, 101, 100, 105, 97, 116, 114, 105, 97>>,   \* pediatria
      <<103, 105, 110, 101, 99, 111, 108, 111, 103, 105, 97>>,   \* ginecologia
      <<111, 114, 116, 111, 112, 101, 100, 105, 97>>,   \* ortopedia
      <<100, 101, 114, 109, 97, 116, 111, 108, 111, 103, 105, 97>>,   \* dermatologia
      <<111, 102, 116, 97, 108, 109, 111, 108, 111, 103, 105, 97>>,   \* oftalmologia
      <<112, 115, 105, 113, 117, 105, 97, 116, 114, 105, 97>>,   \* psiquiatria
      <<117, 114, 111, 108, 111, 103, 105, 97>>,   \* urologia
      <<99, 108, 105, 110, 105, 99, 97>>,   \* clinica
      <<99, 108, 237, 110, 105, 99, 97>>,   \* cl.nica
      <<99, 105, 114, 117, 114, 103, 105, 97>>,   \* cirurgia
      <<101, 120, 97, 109, 101>>,   \* exame
      <<99, 111, 110, 115, 117, 108, 116, 97>>,   \* consulta
      <<102, 105, 115, 105, 111, 116, 101, 114, 97, 112, 105, 97>>,   \* fisioterapia
      <<102, 111, 110, 111, 97, 117, 100, 105, 111, 108, 111, 103, 105, 97>>,   \* fonoaudiologia
      <<110, 117, 116, 114, 105, 231, 227, 111>>,   \* nutri..o
      <<112, 115, 105, 99, 111, 108, 111, 103, 105, 97>>,   \* psicologia
      <<116, 101, 114, 97, 112, 105, 97>>,   \* terapia
      <<108, 97, 98, 111, 114, 97, 116, 111, 114, 105, 111>>,   \* laboratorio
      <<108, 97, 98, 111, 114, 97, 116, 243, 114, 105, 111>>,   \* laborat.rio
      <<105, 109, 97, 103, 101, 109>>    \* imagem
    }

\* The white space String.prototype.trim removes (tab to carriage return,
\* space, no-break space)
Espacos == {9, 10, 11, 12, 13, 32, 160}

RECURSIVE trimStart(_)
trimStart(s) ==
    IF s # <<>> /\ Head(s) \in Espacos THEN trimStart(Tail(s)) ELSE s

RECURSIVE trimEnd(_)
trimEnd(s) ==
    IF s # <<>> /\ s[Len(s)] \in Espacos THEN trimEnd(SubSeq(s, 1, Len(s) - 1)) ELSE s

\* String.prototype.trim
trim(s) == trimEnd(trimStart(s))

\* s.includes(w)
includes(s, w) ==
    \E i \in 0..(Len(s) - Len(w)) : SubSeq(s, i + 1, i + Len(w)) = w

\* palavrasValidas.some(palavra => valorLower.includes(palavra))
temPalavraValida(palavras, valor) ==
    \E w \in palavras : includes(toLowerCase(valor), w)

\* /\d/.test(valor)
temNumeros(valor) == \E i \in 1..Len(valor) : isDigit(valor[i])

\* validarDestinoSimples() on the value v: "nada" when it returns before
\* any display, else the function it calls
validarDestinoSimples(v) ==
    LET valor == trim(v)
    IN IF valor = <<>> \/ Len(valor) < MinDestino THEN "nada"
       ELSE IF temPalavraValida(PalavrasDestino, valor) \/ temNumeros(valor)
            THEN "sucesso"
            ELSE "aviso"

\* validarEspecialidadeSimples() on the value v
validarEspecialidadeSimples(v) ==
    LET valor == trim(v)
    IN IF valor = <<>> \/ Len(valor) < MinEspecialidade THEN "nada"
       ELSE IF temPalavraValida(PalavrasEspecialidade, valor)
               \/ Len(valor) > LongaEspecialidade
            THEN "sucesso"
            ELSE "aviso"

validar(a, v) ==
    IF a = "destino" THEN validarDestinoSimples(v) ELSE validarEspecialidadeSimples(v)

\* The field after mostrarSucessoX (the warning removed, green border, a
\* timer of 2 s that nothing cancels) or mostrarAvisoX (the warning
\* replaced, orange border), or as it was
\* Mutant of mostrar: a refused value is wiped and the field disabled
mostrar_Bloqueia(r, f, t) ==
    CASE r = "sucesso" ->
           [f EXCEPT !.aviso = FALSE, !.borda = "verde",
                     !.resets = Append(@, t + ResetDelay)]
      [] r = "aviso" ->
           [f EXCEPT !.aviso = TRUE, !.borda = "laranja", !.valor = <<>>,
                     !.habilitado = FALSE]
      [] OTHER -> f

mostrar(r, f, t) ==
    CASE r = "sucesso" ->
           [f EXCEPT !.aviso = FALSE, !.borda = "verde",
                     !.resets = Append(@, t + ResetDelay)]
      [] r = "aviso" -> [f EXCEPT !.aviso = TRUE, !.borda = "laranja"]
      [] OTHER -> f

\* Mutant of onInput: clearTimeout(timeoutId) left out
onInput_SemClear(pend, tid, t) ==
    [pendentes |-> pend \cup {[id |-> tid + 1, prazo |-> t + Debounce]},
     timeoutId |-> tid + 1]

\* The input listener: clearTimeout(timeoutId); timeoutId = setTimeout(...)
onInput(pend, tid, t) ==
    [pendentes |-> {p \in pend : p.id # tid} \cup {[id |-> tid + 1, prazo |-> t + Debounce]},
     timeoutId |-> tid + 1]

\* A validation of the current value by `origem`, its display and its record
Valida(origem, contaTimer) ==
    LET r == validar(alvo, texto)
        f == mostrar(r, [aviso |-> aviso, borda |-> borda, resets |-> resets,
                         valor |-> texto, habilitado |-> habilitado], tempo)
    IN /\ texto' = f.valor
       /\ habilitado' = f.habilitado
       /\ aviso' = f.aviso
       /\ borda' = f.borda
       /\ resets' = f.resets
       /\ vlog' = [vlog EXCEPT !.origem = origem, !.valor = texto,
                               !.exibiu = (r # "nada"), !.aceito = (r # "aviso"),
                               !.desdeInput = @ + contaTimer,
                               !.eventos = @ + (1 - contaTimer)]

\* What the user may leave in the field
Textos(a) ==
    IF a = "destino"
    THEN {
           <<>>,   \* ""
           <<120, 121, 122, 119, 113>>,   \* "xyzwq"
           <<113, 119, 101, 114, 116, 121, 117, 105, 111, 112, 97, 115>>,   \* "qwertyuiopas"
           <<82, 117, 97, 32, 100, 97, 115, 32, 70, 108, 111, 114, 101, 115>>,   \* "Rua das Flores"
           <<113, 119, 101, 114, 116, 121, 117, 105, 111, 112, 32, 49>>    \* "qwertyuiop 1"
         }
    ELSE {
           <<>>,   \* ""
           <<97, 98>>,   \* "ab"
           <<100, 111, 114>>,   \* "dor"
           <<69, 120, 97, 109, 101>>,   \* "Exame"
           <<113, 119, 101, 114, 116, 121, 117, 105, 111, 112>>    \* "qwertyuiop"
         }

\* The user edits the field: an input event
InputTexto(v) ==
    /\ vlog.eventos < MaxEventos
    /\ habilitado
    /\ v \in Textos(alvo)
    /\ v # texto
    /\ texto' = v
    /\ IF alvo = "destino"
       THEN LET r == onInput(pendentes, timeoutId, tempo)
            IN pendentes' = r.pendentes /\ timeoutId' = r.timeoutId
       ELSE UNCHANGED <<pendentes, timeoutId>>
    /\ vlog' = [vlog EXCEPT !.ultimoInput = tempo, !.houveInput = TRUE,
                            !.desdeInput = 0, !.eventos = @ + 1]
    /\ UNCHANGED <<alvo, resets, borda, aviso, tempo, habilitado,
                   loaderVars, cepVars, cacheVars, bindVars>>

\* The callback of the input listener's timer p runs
DebounceFires(p) ==
    /\ p \in pendentes
    /\ p.prazo <= tempo
    /\ pendentes' = pendentes \ {p}
    /\ IF Len(texto) > MinDebounce
       THEN Valida("timer", 1)
       ELSE UNCHANGED <<texto, habilitado, aviso, borda, resets, vlog>>
    /\ UNCHANGED <<alvo, timeoutId, tempo, loaderVars, cepVars, cacheVars, bindVars>>

\* The destination field loses focus
BlurDestino ==
    /\ alvo = "destino"
    /\ vlog.eventos < MaxEventos
    /\ Valida("blur", 0)
    /\ UNCHANGED <<alvo, pendentes, timeoutId, tempo, loaderVars, cepVars, cacheVars, bindVars>>

\* The form calls validarEspecialidadeSimples()
ValidarEspecialidade ==
    /\ alvo = "especialidade"
    /\ vlog.eventos < MaxEventos
    /\ Valida("direta", 0)
    /\ UNCHANGED <<alvo, pendentes, timeoutId, tempo, loaderVars, cepVars, cacheVars, bindVars>>

\* The oldest timer of mostrarSucessoX runs: the border goes back to the
\* default colour
ResetFires ==
    /\ resets # <<>>
    /\ Head(resets) <= tempo
    /\ resets' = Tail(resets)
    /\ borda' = "padrao"
    /\ UNCHANGED <<alvo, texto, pendentes, timeoutId, aviso, tempo, habilitado, vlog,
                   loaderVars, cepVars, cacheVars, bindVars>>

\* Half a second passes; the timers that are due run first
Passa ==
    /\ tempo < MaxPassos * Passo
    /\ \A p \in pendentes : p.prazo > tempo
    /\ resets # <<>> => Head(resets) > tempo
    /\ tempo' = tempo + Passo
    /\ UNCHANGED <<alvo, texto, pendentes, timeoutId, resets, borda, aviso, habilitado, vlog,
                   loaderVars, cepVars, cacheVars, bindVars>>

\* Every timer the input listener may have set
Timers ==
    [id : 1..MaxEventos, prazo : {k * Passo + Debounce : k \in 0..MaxPassos}]

InitVal ==
    /\ InitLoaderVars
    /\ InitCepVars
    /\ InitCacheVars
    /\ InitBindVars
    /\ alvo \in Alvos
    /\ texto = <<>>
    /\ pendentes = {}
    /\ timeoutId = 0
    /\ resets = <<>>
    /\ borda = "padrao"
    /\ aviso = FALSE
    /\ tempo = 0
    /\ habilitado = TRUE
    /\ vlog = SemValidacao

NextVal ==
    \/ \E v \in UNION {Textos(a) : a \in Alvos} : InputTexto(v)
    \/ \E p \in Timers : DebounceFires(p)
    \/ BlurDestino
    \/ ValidarEspecialidade
    \/ ResetFires
    \/ Passa

SpecVal == InitVal /\ [][NextVal]_vars

----------------------------------------------------------------------------
(* Properties of the dataset loaders, checked under SpecLoad               *)

\* The entry under ds's key is a cache entry (payload list and timestamp)
\* younger than the ttl
HoldsUnexpired(ds) ==
    /\ storage[ds].kind = "json"
    /\ storage[ds].temLista
    /\ storage[ds].temTs
    /\ now - storage[ds].ts < cacheExpiry(ds)

\* The entry under ds's key has a timestamp and its age is at or past the ttl
HoldsExpired(ds) ==
    /\ storage[ds].kind = "json"
    /\ storage[ds].temTs
    /\ now - storage[ds].ts >= cacheExpiry(ds)

\* This step is init() entering loadCidades / loadEspecialidades as call c
LoadCalled(c, ds) ==
    /\ calls[c].pc = "idle"
    /\ calls'[c].pc # "idle"
    /\ calls'[c].kind = "load"
    /\ calls'[c].ds = ds

\* This step issues a fetch for ds
FetchIssued(ds) == netCount'[ds] = netCount[ds] + 1

Fetching(ds) == {c \in Calls : calls[c].pc = "fetching" /\ calls[c].ds = ds}

\* C1: for every dataset, a load called while the cache holds an unexpired
\* entry under the dataset's key issues no network request and returns
\* exactly that entry's payload.
C1_WarmCacheShortCircuits ==
    [][\A c \in Calls, ds \in Datasets :
          (LoadCalled(c, ds) /\ HoldsUnexpired(ds))
              => /\ netCount' = netCount
                 /\ calls'[c].pc = "done"
                 /\ calls'[c].ret = storage[ds].lista]_vars

\* C1, for the entries whose payload is not empty: what the code does keep.
WarmNonEmptyCacheShortCircuits ==
    [][\A c \in Calls, ds \in Datasets :
          (LoadCalled(c, ds) /\ HoldsUnexpired(ds) /\ storage[ds].lista # <<>>)
              => /\ netCount' = netCount
                 /\ calls'[c].pc = "done"
                 /\ calls'[c].ret = storage[ds].lista
                 /\ storage' = storage]_vars

\* C2: for every dataset, a load called while the cached entry's age is at
\* or beyond the ttl removes the entry and issues a network request, and a
\* fallback list is returned only by a call whose request was issued.
C2_ExpiredEntryPurgedThenFetched ==
    [][/\ \A c \in Calls, ds \in Datasets :
             (LoadCalled(c, ds) /\ HoldsExpired(ds))
                 => /\ storage'[ds] = NoItem
                    /\ FetchIssued(ds)
                    /\ calls'[c].pc = "fetching"
       /\ \A c \in Calls :
             (calls'[c].via = "fallback" /\ calls[c].via # "fallback")
                 => calls[c].pc = "fetching"]_vars

\* A load that found an expired entry has purged it and is fetching, or has
\* fetched and fallen back
C2_Witness ==
    \E c \in Calls :
        /\ calls[c].visto = "expirado"
        /\ calls[c].via = "fallback"
        /\ storage[calls[c].ds] = NoItem
        /\ netCount[calls[c].ds] >= 1

\* C3: a load that ends in the catch block (timeout, transport error,
\* non-2xx status, unparseable or wrongly shaped payload) returns the static
\* fallback list as it is and writes nothing to the cache; and every load
\* called with no unexpired entry in the cache issues a network request,
\* whatever failed before.
C3_FailureReturnsFallbackUncached ==
    [][/\ \A c \in Calls :
             (calls[c].pc = "fetching" /\ calls'[c].via = "fallback")
                 => /\ calls'[c].pc = "done"
                    /\ calls'[c].ret = fallback(calls[c].ds)
                    /\ lista'[calls[c].ds] = fallback(calls[c].ds)
                    /\ storage' = storage
       /\ \A c \in Calls, ds \in Datasets :
             (LoadCalled(c, ds) /\ ~HoldsUnexpired(ds))
                 => FetchIssued(ds) /\ calls'[c].pc = "fetching"]_vars

\* A load has failed over to the fallback, and a later load of the same
\* dataset is fetching again
C3_Witness ==
    \E c \in Calls, d \in Calls :
        /\ calls[c].via = "fallback"
        /\ calls[c].ret = fallback(calls[c].ds)
        /\ calls[d].pc = "fetching"
        /\ calls[d].ds = calls[c].ds
        /\ calls[d].kind = "load"
        /\ c \in calls[d].feitas
        /\ netCount[calls[c].ds] = 2

\* C4: for every dataset, a fetch issued by load is aborted once the fixed
\* timeout has passed: no fetch is still pending later than that.
C4_EveryFetchBoundedByTimeout ==
    \A c \in Calls :
        calls[c].pc = "fetching" => now - calls[c].startedAt <= FetchTimeout

\* C5: at most one network request per dataset is in flight at any time.
C5_OneFetchInFlightPerDataset ==
    \A ds \in Datasets : Cardinality(Fetching(ds)) <= 1

\* No entry of l comes after one that collates after it
IsLocaleSorted(l) == \A i, j \in 1..Len(l) : i < j => ~localeLess(l[j], l[i])

\* No two entries of l are equal when case and diacritics are ignored
NoCaseDuplicates(l) ==
    \A i, j \in 1..Len(l) :
        i # j => [k \in 1..Len(l[i]) |-> baseLetter(l[i][k])]
                    # [k \in 1..Len(l[j]) |-> baseLetter(l[j][k])]

\* C11: every list a load has returned, by whichever path and for either
\* dataset, has no two entries equal ignoring case and is in locale-aware
\* (case- and diacritic-insensitive) order.
C11_ReturnedListsSortedAndDeduplicated ==
    \A c \in Calls :
        calls[c].pc = "done"
            => IsLocaleSorted(calls[c].ret) /\ NoCaseDuplicates(calls[c].ret)

\* This step is call c leaving loadCidades / loadEspecialidades by the end
\* of the try block, the fetch having succeeded
FetchSucceeded(c) == calls[c].pc = "fetching" /\ calls'[c].via = "remote"

\* The entry under ds's key is the one a successful fetch of call d wrote
WrittenBy(d, ds) ==
    /\ calls[d].pc = "done"
    /\ calls[d].via = "remote"
    /\ calls[d].ds = ds
    /\ storage[ds].kind = "json"
    /\ storage[ds].temLista
    /\ storage[ds].lista = calls[d].ret

\* C15: a successful fetch leaves under the dataset's key exactly the list
\* the load returns, stamped with the current time; and a load called while
\* that entry is within its ttl returns that list and issues no request.
C15_FetchedListCachedAndServed ==
    [][/\ \A c \in Calls :
             FetchSucceeded(c)
                 => /\ storage'[calls[c].ds].kind = "json"
                    /\ storage'[calls[c].ds].lista = calls'[c].ret
                    /\ storage'[calls[c].ds].ts = now
       /\ \A c, d \in Calls, ds \in Datasets :
             (LoadCalled(c, ds) /\ WrittenBy(d, ds) /\ HoldsUnexpired(ds))
                 => /\ netCount' = netCount
                    /\ calls'[c].pc = "done"
                    /\ calls'[c].ret = calls[d].ret]_vars

\* C15, for the fetches that bring at least one name
FetchedNonEmptyListCachedAndServed ==
    [][/\ \A c \in Calls :
             FetchSucceeded(c)
                 => /\ storage'[calls[c].ds].kind = "json"
                    /\ storage'[calls[c].ds].lista = calls'[c].ret
                    /\ storage'[calls[c].ds].ts = now
       /\ \A c, d \in Calls, ds \in Datasets :
             (LoadCalled(c, ds) /\ WrittenBy(d, ds) /\ HoldsUnexpired(ds)
                  /\ calls[d].ret # <<>>)
                 => /\ netCount' = netCount
                    /\ calls'[c].pc = "done"
                    /\ calls'[c].ret = calls[d].ret]_vars

\* C16: no load returns an empty list, whatever the remote answers.
C16_LoadNeverReturnsEmpty ==
    \A c \in Calls : calls[c].pc = "done" => calls[c].ret # <<>>

----------------------------------------------------------------------------
(* Properties of the cache getters and setters, checked under SpecCache    *)

\* The last operation was a getter that returned (it did not throw)
ReadReturned == ultima.op = "get" /\ ~ultima.lancou

\* The value that getter found was an entry whose age was at or past the ttl
FoundExpired ==
    /\ ultima.antes.kind = "json"
    /\ ultima.antes.temTs
    /\ ultima.em - ultima.antes.ts >= cacheExpiry(ultima.ds)

\* The value that getter found was not a well-formed entry: text that is
\* not JSON, or JSON without the list or without the timestamp
FoundMalformed ==
    \/ ultima.antes.kind = "texto"
    \/ ultima.antes.kind = "json" /\ (~ultima.antes.temLista \/ ~ultima.antes.temTs)

\* C12: a cache read that finds an entry with now - timestamp >= ttl does
\* not return its payload, and the entry is gone from storage when the read
\* returns.
C12_ExpiredEntryNeverReturned ==
    (ReadReturned /\ FoundExpired) => (~ultima.temValor /\ ultima.vazio)

\* A read has found a complete entry exactly at or past its ttl and purged it
C12_Witness ==
    /\ ReadReturned
    /\ FoundExpired
    /\ ultima.antes.temLista
    /\ ultima.antes.lista # <<>>
    /\ ~ultima.temValor
    /\ ultima.vazio

\* C13: a cache read that finds a value that is not a well-formed entry
\* reports a miss without raising, and the value is gone from storage when
\* the read returns.
C13_MalformedEntryPurged ==
    (ultima.op = "get" /\ medium = "ok" /\ FoundMalformed)
        => (~ultima.lancou /\ ~ultima.temValor /\ ultima.vazio)

\* C14: whatever the storage medium does, no cache read and no cache write
\* raises.
C14_StorageFailureNeverRaised == ~ultima.lancou

----------------------------------------------------------------------------
(* Properties of the postal-code resolver, checked under SpecCep           *)

\* How many digits a field content has
DigitCount(v) == Cardinality({i \in 1..Len(v) : v[i] \in 48..57})

\* The field content has eight digits, and they are one digit repeated
RepeatedDigits(v) ==
    /\ DigitCount(v) = 8
    /\ \A i, j \in 1..Len(v) : (v[i] \in 48..57 /\ v[j] \in 48..57) => v[i] = v[j]

\* This step takes the focus from the cep field: the user leaves it, or a
\* handler moves the focus to the numero field
FocusLost == focus = "cep" /\ focus' # "cep"

\* This step issues a ViaCEP request
LookupIssued == lookupSeq' # lookupSeq \/ ~(lookups' \subseteq lookups)

\* This step settles lookup l
Settled(l) == l \in lookups /\ l \notin lookups'

\* C6: once the user has edited the field and a lookup for the later code
\* has been issued, the response of the earlier lookup neither writes nor
\* clears the dependent fields.
C6_StaleResponseLeavesFields ==
    [][\A l \in lookups :
          (Settled(l) /\ l.id # lookupSeq /\ soDigitos(cepField) # l.cep)
              => campos' = campos]_vars

\* C7: a focus-loss on a field whose content has not exactly 8 digits issues
\* no network request.
C7_NoLookupUnlessEightDigits ==
    [][(FocusLost /\ DigitCount(cepField) # 8) => ~LookupIssued]_vars

\* The user has left the field with 7 digits in it, and nothing was requested
C7_Witness ==
    /\ focus = "outro"
    /\ DigitCount(cepField) = 7
    /\ lookupSeq = 0
    /\ lookups = {}

\* C8: a focus-loss on a field holding one digit repeated 8 times issues no
\* network request, clears the four dependent fields and leaves the
\* format-error message showing.
C8_RepeatedDigitRejected ==
    [][(FocusLost /\ RepeatedDigits(cepField))
          => /\ ~LookupIssued
             /\ campos' = CamposVazios
             /\ mensagem' = MsgFormato]_vars

\* C8, for the focus-loss the user causes by leaving the field
RepeatedDigitRejectedOnUserBlur ==
    [][(FocusLost /\ focus' = "outro" /\ RepeatedDigits(cepField))
          => /\ ~LookupIssued
             /\ campos' = CamposVazios
             /\ mensagem' = MsgFormato]_vars

\* C9: a focus-loss on a field holding 8 digits that are not one digit
\* repeated issues a lookup of that code; and when a lookup brings street,
\* city and state, the three fields hold the values brought and the numero
\* field has the focus.
C9_ValidCodeLookedUpAndFilled ==
    [][/\ (FocusLost /\ DigitCount(cepField) = 8 /\ ~RepeatedDigits(cepField))
             => /\ lookupSeq' = lookupSeq + 1
                /\ \E l \in lookups' \ lookups : l.cep = soDigitos(cepField)
       /\ \A l \in lookups :
             (Settled(l) /\ mensagem' = MsgSucesso)
                 => /\ campos'["logradouro"] = l.cep
                    /\ campos'["cidade"] = l.cep
                    /\ focus' = "numero"]_vars

\* C10: validarFormatoCEP accepts a string exactly when it is 8 digits that
\* are not all the same, whatever the first digit (stated of the field
\* content and of its digits, the strings the handlers pass).
C10_FormatIsEightDigitsNotRepeated ==
    \A v \in {cepField, soDigitos(cepField)} :
        validarFormatoCEP(v) <=> (Len(v) = 8 /\ DigitCount(v) = 8 /\ ~RepeatedDigits(v))

\* The answers { erro: true } and "fetch or json() rejects"
RespostaErro == [tipo |-> "erro", dados |-> CamposVazios]

RespostaFalha == [tipo |-> "falha", dados |-> CamposVazios]

\* C17: when a lookup is answered "not found", the four dependent fields
\* are cleared and the not-found message is shown.
C17_NotFoundClearsFields ==
    [][\A l \in lookups :
          LookupResponde(l, RespostaErro)
              => (campos' = CamposVazios /\ mensagem' = MsgNaoEncontrado)]_vars

\* A lookup has been answered "not found": the message shows over empty fields
C17_Witness ==
    /\ mensagem = MsgNaoEncontrado
    /\ campos = CamposVazios
    /\ lookupSeq >= 1
    /\ ~loading

\* C18: when a lookup is answered without street or without city, every
\* dependent field the answer has a value for is filled with it, and the
\* incomplete-data warning, which is not the not-found message, is shown.
C18_IncompleteAnswerFillsWhatIsPresent ==
    [][\A l \in lookups : \A faltam \in {{"logradouro"}, {"cidade", "uf"}} :
          LookupResponde(l, Endereco(l.cep, faltam))
              => /\ \A f \in NomesCampos \ faltam : campos'[f] = l.cep
                 /\ mensagem' = MsgIncompleto
                 /\ MsgIncompleto # MsgNaoEncontrado]_vars

\* C19: when a lookup fails in transport, the dependent fields are cleared
\* and the connection message is shown.
C19_TransportErrorClearsFields ==
    [][\A l \in lookups :
          LookupResponde(l, RespostaFalha)
              => (campos' = CamposVazios /\ mensagem' = MsgConexao)]_vars

\* The digits of v, in order
DigitsIn(v) == SelectSeq(v, LAMBDA ch : ch \in 48..57)

\* f is v masked: the first 8 digits of v at most, in order, with "-" after
\* the fifth exactly when v has 6 digits or more; 9 characters at most
Masked(v, f) ==
    LET d == DigitsIn(v)
        k == IF Len(d) > 8 THEN 8 ELSE Len(d)
    IN /\ DigitsIn(f) = SubSeq(d, 1, k)
       /\ Len(f) <= 9
       /\ \A i \in 1..Len(f) : f[i] \in 48..57 \/ f[i] = 45
       /\ IF Len(d) >= 6
          THEN f = SubSeq(d, 1, 5) \o <<45>> \o SubSeq(d, 6, k)
          ELSE f = d

\* C20: whatever string an input event finds in the field, the handler
\* leaves it masked.
C20_InputLeavesFieldMasked ==
    [][\A v \in RawInputs : (Keystroke(v) \/ Paste(v)) => Masked(v, cepField')]_vars

\* An input of 8 or more digits has been masked to 00000-000 form
C20_Witness ==
    /\ Len(cepField) = 9
    /\ cepField[6] = 45
    /\ DigitCount(cepField) = 8

\* C21: after a keystroke the field has the class cep-valido exactly when
\* its digits are 8 and pass validarFormatoCEP, cep-invalido exactly when they
\* are 8 and fail it, never both; and the keystroke issues no request.
C21_KeystrokeSetsClassLocally ==
    [][\A v \in RawInputs :
          Keystroke(v)
              => LET cep == DigitsIn(cepField')
                 IN /\ "cep-valido" \in cepClass'
                          <=> (Len(cep) = 8 /\ validarFormatoCEP(cep))
                    /\ "cep-invalido" \in cepClass'
                          <=> (Len(cep) = 8 /\ ~validarFormatoCEP(cep))
                    /\ cepClass' # {"cep-valido", "cep-invalido"}
                    /\ ~LookupIssued]_vars

\* A keystroke has turned a field marked valid into one marked invalid
C21_Witness ==
    /\ cepClass = {"cep-invalido"}
    /\ DigitCount(cepField) = 8
    /\ focus = "cep"
    /\ lookupSeq = 0

----------------------------------------------------------------------------
(* Properties of the field binders, checked under SpecBind                 *)

\* The select the last createXSelect call inserted
UltimoSelect(d) == d.selects[Len(d.selects)]

\* C22: binding is idempotent: whenever createXSelect runs on a container
\* whose input is present, the container then holds exactly one select, and
\* a change of a select runs exactly one listener, hence one write
C22_BindIsIdempotent ==
    [][/\ (Bind /\ dom.container /\ dom.input) => Len(dom'.selects) = 1
       /\ \A i \in 1..MaxBinds : \A v \in Escolhas :
            Change(i, v) => dom'.disparos = 1]_vars

\* C23: createXSelect on a page without the container, or whose container
\* has no matching input, leaves the page as it was, the select of an
\* earlier call included
C23_BindWithoutTargetIsNoOp ==
    [][(Bind /\ (~dom.container \/ ~dom.input)) => dom' = dom]_vars

\* C24: the select createXSelect builds has the option '', then one option
\* per entry of the loaded list in list order, then the option 'outra':
\* list length plus 2 options
C24_SelectOptionsFollowList ==
    [][(Bind /\ dom.container /\ dom.input) =>
          LET sel == UltimoSelect(dom')
              l == lista[datasetOf(binder)]
          IN /\ Len(sel.options) = Len(l) + 2
             /\ sel.options[1] = <<>>
             /\ \A k \in 1..Len(l) : sel.options[k + 1] = l[k]
             /\ sel.options[Len(l) + 2] = Outra]_vars

C24_Witness ==
    /\ nBinds = 2
    /\ Len(dom.selects) = 1
    /\ Len(lista[datasetOf(binder)]) = 2
    /\ Len(dom.selects[1].options) = 4

\* C25 as stated: choosing a list entry makes the input's value exactly
\* that entry, and focuses the input
C25_ChoiceWritesExactValue ==
    [][\A i \in 1..MaxBinds : \A v \in Escolhas \ {<<>>, Outra} :
          Change(i, v) => (dom'.value = v /\ dom'.focused)]_vars

\* C25: choosing a list entry makes the input's value that entry for a
\* specialty, that entry followed by ', SP' for a city, and focuses the input
C25_ChoiceWritesEntry ==
    [][\A i \in 1..MaxBinds : \A v \in Escolhas \ {<<>>, Outra} :
          Change(i, v) =>
             /\ dom'.value = IF binder = "especialidades" THEN v ELSE v \o SufixoSP
             /\ dom'.focused]_vars

C25_Witness ==
    /\ binder = "cidades"
    /\ Len(dom.selects) = 1
    /\ dom.selects[1].valor = <<97>>
    /\ dom.disparos = 1
    /\ dom.value = <<97, 44, 32, 83, 80>>
    /\ dom.focused

\* C26: choosing 'outra' empties the input, focuses it and gives it the
\* placeholder that asks for free text, whatever the input held
C26_OtherClearsAndPrompts ==
    [][\A i \in 1..MaxBinds :
          Change(i, Outra) =>
             /\ dom'.value = <<>>
             /\ dom'.focused
             /\ dom'.placeholder = PlaceholderLivre(binder)]_vars

\* 'outra' chosen in the second select, after an entry was chosen in the
\* first and written to the input
C26_Witness ==
    /\ Len(dom.selects) = 2
    /\ dom.selects[1].valor = <<97>>
    /\ dom.selects[2].valor = Outra
    /\ dom.value = <<>>
    /\ dom.focused
    /\ dom.placeholder = PlaceholderLivre(binder)

\* C27: choosing the option '' after another choice empties the input and
\* gives it back the placeholder createXSelect set
C27_BlankResetsField ==
    [][\A i \in 1..MaxBinds :
          Change(i, <<>>) =>
             /\ dom'.value = <<>>
             /\ dom'.placeholder = PlaceholderInicial(binder)]_vars

----------------------------------------------------------------------------
(* Properties of the field validation, checked under SpecVal               *)

\* C28: while the user types in the destination field, the validation runs
\* only when 1 s has passed since the last input event and only on content
\* longer than 10 characters; every input event cancels the pending timer
\* and leaves its own as the only one, so that a burst of input events
\* less than 1 s apart is followed by at most one validation, after the
\* last of them
C28_DebouncedValidation ==
    [][/\ \A v \in Textos("destino") :
            (alvo = "destino" /\ InputTexto(v)) =>
               pendentes' = {[id |-> timeoutId', prazo |-> tempo + Debounce]}
       /\ \A p \in Timers :
            DebounceFires(p) =>
               /\ vlog.houveInput
               /\ tempo >= vlog.ultimoInput + Debounce
               /\ vlog'.desdeInput > vlog.desdeInput => Len(texto) > MinDebounce
               /\ pendentes' = {}
       /\ vlog'.desdeInput <= 1]_vars

\* Input events at 0 ms and 500 ms, one validation by the timer at 1500 ms
C28_Witness ==
    /\ alvo = "destino"
    /\ vlog.eventos = 2
    /\ vlog.ultimoInput = Passo
    /\ tempo = Passo + Debounce
    /\ vlog.origem = "timer"
    /\ vlog.desdeInput = 1
    /\ pendentes = {}

\* C29: once a validation has answered no, the field keeps its warning and
\* its warning border until a validation answers yes: while the warning is
\* there the border is orange, whatever timer an earlier yes left behind
C29_WarningBorderPersists == aviso => borda = "laranja"

\* C30: a validation that reaches a display accepts the value exactly when
\* the value contains a word of the whitelist or, for the destination
\* only, a digit
C30_AcceptsExactlyKeywordOrDigit ==
    vlog.exibiu =>
       (vlog.aceito <=>
          IF alvo = "destino"
          THEN temPalavraValida(PalavrasDestino, vlog.valor) \/ temNumeros(vlog.valor)
          ELSE temPalavraValida(PalavrasEspecialidade, vlog.valor))

\* This step runs a validation: the timer callback, the blur listener or
\* the form's call
ValidationStep ==
    \/ \E p \in Timers : DebounceFires(p)
    \/ BlurDestino
    \/ ValidarEspecialidade

\* C31: a validation, whatever it answers, leaves the field's value as it
\* was and the field enabled, so that any other text can be typed after
\* it; of the field it changes only the border colour and the warning
C31_ValidationIsAdvisory ==
    [][ValidationStep =>
          /\ texto' = texto
          /\ habilitado'
          /\ UNCHANGED <<alvo, timeoutId, tempo>>]_vars

\* A value was refused and the user has typed another one since
C31_Witness ==
    /\ aviso
    /\ vlog.exibiu
    /\ ~vlog.aceito
    /\ habilitado
    /\ texto # vlog.valor
    /\ texto # <<>>

----------------------------------------------------------------------------
(* Properties of forceReload and of overlapping loads, checked under       *)
(* SpecLoad                                                                *)

\* This step is the return of the forceReload running as call c
ForceReloadReturns(c) ==
    /\ calls[c].kind = "forceReload"
    /\ calls[c].pc = "fetching"
    /\ calls'[c].pc = "done"

\* C32: forceReload always issues a network request, whatever the cache
\* held, and when it returns the cache holds either the entry this reload
\* has just written or no entry at all
C32_ForceReloadRefreshesCache ==
    [][\A c \in Calls :
          /\ ForceReload(c) => (FetchIssued("cidades") /\ calls'[c].pc = "fetching")
          /\ ForceReloadReturns(c) =>
                \/ storage'["cidades"] = NoItem
                \/ /\ calls'[c].via = "remote"
                   /\ storage'["cidades"] = Entrada(calls'[c].ret, now)]_vars

\* Two calls for ds have overlapped (the later started before the earlier
\* returned) and every call for ds has returned
OverlappedAndDone(ds) ==
    /\ Fetching(ds) = {}
    /\ \E c1 \in Calls, c2 \in Calls :
          /\ c1 < c2
          /\ calls[c1].pc = "done" /\ calls[c1].ds = ds
          /\ calls[c2].pc = "done" /\ calls[c2].ds = ds
          /\ c1 \notin calls[c2].feitas

\* C33: once overlapping loads of a dataset have all returned, a valid
\* cache entry and the list in memory agree: the list is the entry's payload
C33_MemoryAgreesWithCache ==
    \A ds \in Datasets :
        (OverlappedAndDone(ds) /\ HoldsUnexpired(ds)) => lista[ds] = storage[ds].lista

----------------------------------------------------------------------------
(* Further properties of the postal-code resolver, checked under SpecCep   *)

\* C34: the loading indicator is in the page exactly while at least one
\* lookup is in flight
C34_LoadingWhileAnyLookupPending == loading <=> lookups # {}

C36_MaskIsIdempotent ==
    [][\A v \in RawInputs :
          (Keystroke(v) \/ Paste(v)) =>
             /\ formatCEP(formatCEP(v)) = formatCEP(v)
             /\ formatCEP(cepField') = cepField']_vars

\* The field holds the masked form of a longer input (9 digits typed)
C36_Witness ==
    /\ cepField = Cod(<<1, 3, 1, 5, 0>>) \o <<Hifen>> \o Cod(<<0, 0, 0>>)
    /\ formatCEP(cepField) = cepField
    /\ focus = "cep"

----------------------------------------------------------------------------
(* Independence of the two cache entries, checked under SpecLoad           *)

\* This step belongs to a call, or to a clearCache, of the dataset ds
StepOf(ds) ==
    \/ \E c \in Calls : Load(c, ds)
    \/ ds = "cidades" /\ ((\E c \in Calls : ForceReload(c)) \/ ClearCache)
    \/ \E c \in Calls :
          /\ calls[c].pc = "fetching"
          /\ calls[c].ds = ds
          /\ calls'[c].pc = "done"

\* C37: the two cache entries lie under different keys; load, clearCache
\* and forceReload of the cities leave the specialties entry as it is, a
\* load of the specialties leaves the cities entry as it is; and a load
\* removes its dataset's timestamped entry exactly when the entry's age has
\* reached the dataset's own ttl, 24 hours for the cities and 7 days for
\* the specialties
C37_CacheEntriesIndependent ==
    [][/\ cacheKey("cidades") # cacheKey("especialidades")
       /\ StepOf("cidades") => storage'["especialidades"] = storage["especialidades"]
       /\ StepOf("especialidades") => storage'["cidades"] = storage["cidades"]
       /\ \A c \in Calls : \A ds \in Datasets :
            (Load(c, ds) /\ storage[ds].kind = "json" /\ storage[ds].temTs) =>
               (storage'[ds] = NoItem <=>
                   now - storage[ds].ts >=
                      IF ds = "cidades" THEN 24 * 60 * 60 * 1000
                                        ELSE 7 * 24 * 60 * 60 * 1000)]_vars

\* 24 hours on, the specialties entry of time 0 has been served from the
\* cache and is still there after the cities were fetched and cached
C37_Witness ==
    /\ now = 24 * 60 * 60 * 1000
    /\ storage["especialidades"].kind = "json"
    /\ storage["especialidades"].ts = 0
    /\ storage["cidades"].kind = "json"
    /\ storage["cidades"].ts = now
    /\ \E c1 \in Calls, c2 \in Calls :
          /\ calls[c1].pc = "done" /\ calls[c1].ds = "especialidades"
          /\ calls[c1].via = "cache"
          /\ calls[c2].pc = "done" /\ calls[c2].ds = "cidades"
          /\ calls[c2].via = "remote"

====
